---- MODULE Spec2Model ----
(***************************************************************************)
(* Model of the Conan recipe libhal_cmake_util_conan (conanfile.py).       *)
(* One recipe instance is configured from option overrides, then its      *)
(* package_id(), package() and package_info() methods are invoked.        *)
(* A path is a sequence of components and a component is the sequence of  *)
(* its dot-separated segments: cmake/build.cmake is                       *)
(* << <<"cmake">>, <<"build", "cmake">> >>.  os.path.join concatenates.   *)
(***************************************************************************)
EXTENDS Integers, Sequences, FiniteSets, TLC

\* Bound: number of package_info() calls made on one recipe instance.
MaxCalls == 2

----------------------------------------------------------------------------
\* Class attributes (conanfile.py:34-41)

options ==
    [add_build_outputs |-> {TRUE, FALSE}, optimize_debug_build |-> {TRUE, FALSE}]

default_options_flipped ==
    [add_build_outputs |-> TRUE, optimize_debug_build |-> FALSE]

default_options ==
    [add_build_outputs |-> TRUE, optimize_debug_build |-> TRUE]

\* Override mappings handed to the recipe: values for some declared options.
Overrides == UNION {[D -> BOOLEAN] : D \in SUBSET DOMAIN options}

\* Value of self.options before the option values have been resolved.
NoOptions == << >>

\* Mutant of resolveOptions.
resolveOptions_defaults_only(ov) ==
    [k \in DOMAIN options |-> default_options[k]]

\* The declared options with the overrides laid over default_options.
resolveOptions(ov) ==
    [k \in DOMAIN options |->
       IF k \in DOMAIN ov THEN ov[k] ELSE default_options[k]]

----------------------------------------------------------------------------
\* Paths and files

os_path_join(a, b) == a \o b

PackageFolders == { << <<"p">> >>, << <<"home">>, <<"pkg">> >> }

\* Files a source folder may contain (exports_sources = cmake/*, LICENSE).
SourceUniverse ==
    { << <<"LICENSE">> >>,
      << <<"cmake">>, <<"build", "cmake">> >>,
      << <<"cmake">>, <<"colors", "cmake">> >>,
      << <<"cmake">>, <<"clang-tidy", "conf">> >>,
      << <<"cmake">>, <<"README", "md">> >>,
      << <<"cmake">>, <<"sub">>, <<"extra", "cmake">> >>,
      << <<"toolchain", "cmake">> >> }

\* The file name ends with "." followed by ext.
EndsWithDot(name, ext) == Len(name) >= 2 /\ name[Len(name)] = ext

\* fnmatch of a relative path against the three patterns used by package();
\* "*" matches any run of characters, path separators included.
fnmatch(n, pat) ==
    CASE pat = "LICENSE" -> n = << <<"LICENSE">> >>
      [] pat = "cmake/*.cmake" ->
           Len(n) >= 2 /\ n[1] = <<"cmake">> /\ EndsWithDot(n[Len(n)], "cmake")
      [] pat = "cmake/*.conf" ->
           Len(n) >= 2 /\ n[1] = <<"cmake">> /\ EndsWithDot(n[Len(n)], "conf")
      [] OTHER -> FALSE

\* Mutants of copy.
copy_flat(pattern, src, dst) ==
    { os_path_join(dst, <<n[Len(n)]>>) : n \in {m \in src : fnmatch(m, pattern)} }

copy_needs_license(pattern, src, dst) ==
    IF << <<"LICENSE">> >> \in src
    THEN { os_path_join(dst, n) : n \in {m \in src : fnmatch(m, pattern)} }
    ELSE {}

\* conan.tools.files.copy: every file of src matching the pattern is written
\* under dst at its relative path; the result is the set of files written.
copy(pattern, src, dst) ==
    { os_path_join(dst, n) : n \in {m \in src : fnmatch(m, pattern)} }

\* Local path variables of package_info (conanfile.py:60-69)
build_outputs_path(pf) == os_path_join(pf, << <<"cmake">>, <<"build_outputs", "cmake">> >>)
optimize_debug_build_path(pf) ==
    os_path_join(pf, << <<"cmake">>, <<"optimize_debug_build", "cmake">> >>)
build_path_wrong(pf) == os_path_join(pf, << <<"cmake">>, <<"clang-tidy", "conf">> >>)
build_path(pf) == os_path_join(pf, << <<"cmake">>, <<"build", "cmake">> >>)
colors_path_wrong(pf) == os_path_join(pf, << <<"cmake">>, <<"build", "cmake">> >>)
colors_path(pf) == os_path_join(pf, << <<"cmake">>, <<"colors", "cmake">> >>)
clang_tidy_config_path(pf) == os_path_join(pf, << <<"cmake">>, <<"clang-tidy", "conf">> >>)

\* Mutants of conf_append.
conf_append_prepend(list, value) == <<value>> \o list
conf_append_unique(list, value) ==
    IF \E i \in 1..Len(list) : list[i] = value THEN list ELSE Append(list, value)

\* self.conf_info.append("tools.cmake.cmaketoolchain:user_toolchain", value)
conf_append(list, value) == Append(list, value)

\* Package identity information before and after self.info.clear().
SettingsDomain == {"Debug", "Release"}
ClearedInfo == [settings |-> << >>, options |-> << >>]
info_clear_settings_only(i) == [settings |-> << >>, options |-> i.options]
info_clear(i) == ClearedInfo

----------------------------------------------------------------------------
VARIABLES
    phase,          \* "new" or "configured"
    overrides,      \* the override mapping handed to the recipe
    error,          \* "none" or the exception a recipe method raised
    self_options,   \* self.options
    info,           \* self.info
    source,         \* files under self.source_folder
    package_folder, \* self.package_folder
    pkg_files,      \* files written under the package folder
    packaged,       \* package() has returned
    id_done,        \* package_id() has returned
    conf_info,      \* conf_info["tools.cmake.cmaketoolchain:user_toolchain"]
    output,         \* lines written with self.output.info
    pc,             \* position inside package_info, or "idle"
    calls           \* completed package_info calls

vars == <<phase, overrides, error, self_options, info, source, package_folder,
          pkg_files, packaged, id_done, conf_info, output, pc, calls>>

Init ==
    /\ phase = "new"
    /\ overrides = << >>
    /\ error = "none"
    /\ self_options = NoOptions
    /\ info = ClearedInfo
    /\ source \in SUBSET SourceUniverse
    /\ package_folder \in PackageFolders
    /\ pkg_files = {}
    /\ packaged = FALSE
    /\ id_done = FALSE
    /\ conf_info = << >>
    /\ output = << >>
    /\ pc = "idle"
    /\ calls = 0

\* The option values are resolved from the overrides and the defaults.
Configure ==
    /\ phase = "new"
    /\ \E ov \in Overrides, s \in SettingsDomain :
         /\ overrides' = ov
         /\ self_options' = resolveOptions(ov)
         /\ info' = [settings |-> s, options |-> resolveOptions(ov)]
    /\ phase' = "configured"
    /\ UNCHANGED <<error, source, package_folder, pkg_files, packaged, id_done,
                   conf_info, output, pc, calls>>

\* def package_id(self): self.info.clear()
package_id ==
    /\ phase = "configured" /\ pc = "idle"
    /\ ~id_done
    /\ info' = info_clear(info)
    /\ id_done' = TRUE
    /\ UNCHANGED <<phase, overrides, error, self_options, source, package_folder,
                   pkg_files, packaged, conf_info, output, pc, calls>>

\* def package(self): three copy calls in sequence
package ==
    /\ phase = "configured" /\ pc = "idle"
    /\ ~packaged
    /\ pkg_files' = pkg_files
         \cup copy("LICENSE", source, os_path_join(package_folder, << <<"licenses">> >>))
         \cup copy("cmake/*.cmake", source, package_folder)
         \cup copy("cmake/*.conf", source, package_folder)
    /\ packaged' = TRUE
    /\ UNCHANGED <<phase, overrides, error, self_options, info, source,
                   package_folder, id_done, conf_info, output, pc, calls>>

\* package_info, lines 57-69: the local paths are computed
package_info_enter ==
    /\ phase = "configured" /\ pc = "idle"
    /\ calls < MaxCalls
    /\ pc' = "L71"
    /\ UNCHANGED <<phase, overrides, error, self_options, info, source,
                   package_folder, pkg_files, packaged, id_done, conf_info,
                   output, calls>>

PIFrame == <<phase, overrides, error, self_options, info, source,
             package_folder, pkg_files, packaged, id_done>>

\* lines 71-74
package_info_L71 ==
    /\ pc = "L71"
    /\ conf_info' = IF self_options.add_build_outputs
                    THEN conf_append(conf_info, build_outputs_path(package_folder))
                    ELSE conf_info
    /\ pc' = "L76"
    /\ UNCHANGED <<PIFrame, output, calls>>

\* lines 76-79
package_info_L76 ==
    /\ pc = "L76"
    /\ conf_info' = IF self_options.optimize_debug_build
                    THEN conf_append(conf_info,
                                     optimize_debug_build_path(package_folder))
                    ELSE conf_info
    /\ pc' = "L81"
    /\ UNCHANGED <<PIFrame, output, calls>>

\* lines 81-83
package_info_L81 ==
    /\ pc = "L81"
    /\ conf_info' = conf_append(conf_info, colors_path(package_folder))
    /\ pc' = "L85"
    /\ UNCHANGED <<PIFrame, output, calls>>

\* lines 85-87
package_info_L85 ==
    /\ pc = "L85"
    /\ conf_info' = conf_append(conf_info, build_path(package_folder))
    /\ pc' = "L90"
    /\ UNCHANGED <<PIFrame, output, calls>>

\* lines 90-91
package_info_L90 ==
    /\ pc = "L90"
    /\ output' = Append(output, <<"clang_tidy_config_path",
                                  clang_tidy_config_path(package_folder)>>)
    /\ pc' = "L92"
    /\ UNCHANGED <<PIFrame, conf_info, calls>>

\* lines 92-93
package_info_L92 ==
    /\ pc = "L92"
    /\ output' = Append(output, <<"add_build_outputs",
                                  self_options.add_build_outputs>>)
    /\ pc' = "L94"
    /\ UNCHANGED <<PIFrame, conf_info, calls>>

\* lines 94-95, then the method returns
package_info_L94 ==
    /\ pc = "L94"
    /\ output' = Append(output, <<"optimize_debug_build",
                                  self_options.optimize_debug_build>>)
    /\ pc' = "idle"
    /\ calls' = calls + 1
    /\ UNCHANGED <<PIFrame, conf_info>>

Next ==
    \/ Configure
    \/ package_id
    \/ package
    \/ package_info_enter
    \/ package_info_L71
    \/ package_info_L76
    \/ package_info_L81
    \/ package_info_L85
    \/ package_info_L90
    \/ package_info_L92
    \/ package_info_L94

Spec == Init /\ [][Next]_vars

----------------------------------------------------------------------------
\* Properties

Frag(name) == package_folder \o << <<"cmake">>, name >>

\* The entries one package_info call publishes for the current options.
OneCall ==
    (IF self_options.add_build_outputs
       THEN <<Frag(<<"build_outputs", "cmake">>)>> ELSE << >>)
    \o (IF self_options.optimize_debug_build
          THEN <<Frag(<<"optimize_debug_build", "cmake">>)>> ELSE << >>)
    \o <<Frag(<<"colors", "cmake">>), Frag(<<"build", "cmake">>)>>

\* Number of options that are true.
TrueCount ==
    (IF self_options.add_build_outputs THEN 1 ELSE 0)
    + (IF self_options.optimize_debug_build THEN 1 ELSE 0)

IsPrefix(s, t) == Len(s) <= Len(t) /\ SubSeq(t, 1, Len(s)) = s

\* The files package() is expected to write for the current source folder.
MirroredScripts ==
    { package_folder \o n :
        n \in { m \in source : /\ Len(m) >= 2
                              /\ m[1] = <<"cmake">>
                              /\ Len(m[Len(m)]) >= 2
                              /\ m[Len(m)][Len(m[Len(m)])] \in {"cmake", "conf"} } }

LicenseCopy ==
    IF << <<"LICENSE">> >> \in source
    THEN { package_folder \o << <<"licenses">>, <<"LICENSE">> >> } ELSE {}

\* C1: after one package_info call on an empty list, the published list is
\* build_outputs iff add_build_outputs, then optimize_debug_build iff
\* optimize_debug_build, then colors, then build, in that order.
C1_PublishOrder ==
    (phase = "configured" /\ pc = "idle" /\ calls = 1) =>
        /\ conf_info = OneCall
        /\ (self_options.add_build_outputs /\ self_options.optimize_debug_build) =>
              conf_info = <<Frag(<<"build_outputs", "cmake">>),
                            Frag(<<"optimize_debug_build", "cmake">>),
                            Frag(<<"colors", "cmake">>), Frag(<<"build", "cmake">>)>>
        /\ (~self_options.add_build_outputs /\ ~self_options.optimize_debug_build) =>
              (conf_info = <<Frag(<<"colors", "cmake">>), Frag(<<"build", "cmake">>)>>
               /\ Len(conf_info) = 2)

C1_Witness ==
    /\ pc = "idle" /\ calls = 1
    /\ ~self_options.add_build_outputs /\ ~self_options.optimize_debug_build
    /\ Len(conf_info) = 2

\* C2 (as claimed): package() over a source folder without LICENSE ends in an
\* error and no file at all is copied.
C2_MissingLicenseAborts ==
    (packaged /\ << <<"LICENSE">> >> \notin source) =>
        (error # "none" /\ pkg_files = {})

\* C2 (amended): package() over a source folder without LICENSE raises no
\* error; the LICENSE copy writes nothing and every cmake/*.cmake and
\* cmake/*.conf file is still copied to its mirrored path.
C2_MissingLicenseIsNoOp ==
    (packaged /\ << <<"LICENSE">> >> \notin source) =>
        /\ error = "none"
        /\ (package_folder \o << <<"licenses">>, <<"LICENSE">> >>) \notin pkg_files
        /\ pkg_files = MirroredScripts

C2_Witness ==
    /\ packaged /\ << <<"LICENSE">> >> \notin source
    /\ (package_folder \o << <<"cmake">>, <<"build", "cmake">> >>) \in pkg_files

\* C3 (as claimed): after a second package_info call with the same folder and
\* options the published list equals the list after the first call.
C3_SecondCallEqualsFirst ==
    (phase = "configured" /\ pc = "idle" /\ calls = 2) => conf_info = OneCall

\* C3 (amended): every package_info call appends the same option-determined
\* entries, so the first call on an empty list yields them once and a second
\* call on the same recipe yields the first call's list followed by itself.
C3_EachCallAppendsSame ==
    (phase = "configured" /\ pc = "idle") =>
        /\ calls = 0 => conf_info = << >>
        /\ calls = 1 => conf_info = OneCall
        /\ calls = 2 => conf_info = OneCall \o OneCall
        /\ Len(conf_info) = calls * Len(OneCall)

C3_Witness ==
    /\ pc = "idle" /\ calls = 2
    /\ self_options.add_build_outputs /\ ~self_options.optimize_debug_build
    /\ Len(conf_info) = 6

\* C5: for overrides whose keys are all declared, the resolved options have
\* exactly the schema keys; an overridden key takes the override value, any
\* other key its default, and every value is in the declared domain.
C5_OverlayOnDefaults ==
    (phase # "new" /\ DOMAIN overrides \subseteq
                        {"add_build_outputs", "optimize_debug_build"}) =>
        /\ phase = "configured" /\ error = "none"
        /\ DOMAIN self_options = {"add_build_outputs", "optimize_debug_build"}
        /\ \A k \in DOMAIN self_options :
             /\ k \in DOMAIN overrides => self_options[k] = overrides[k]
             /\ k \notin DOMAIN overrides => self_options[k] = default_options[k]
             /\ self_options[k] \in options[k]

C5_Witness ==
    /\ phase = "configured"
    /\ DOMAIN overrides = {"optimize_debug_build"}
    /\ ~overrides["optimize_debug_build"]
    /\ self_options.add_build_outputs /\ ~self_options.optimize_debug_build

\* C6: with no overrides the resolved options are the declared defaults,
\* both true, and every default belongs to the domain of its option.
C6_EmptyOverridesGiveDefaults ==
    /\ (phase = "configured" /\ DOMAIN overrides = {}) =>
          (/\ DOMAIN self_options = {"add_build_outputs", "optimize_debug_build"}
           /\ self_options["add_build_outputs"] = TRUE
           /\ self_options["optimize_debug_build"] = TRUE)
    /\ DOMAIN default_options = DOMAIN options
    /\ \A k \in DOMAIN default_options : default_options[k] \in options[k]

C6_Witness ==
    /\ phase = "configured" /\ DOMAIN overrides = {}
    /\ self_options.add_build_outputs /\ self_options.optimize_debug_build

\* C7: the files written by package() are determined by the source folder
\* alone: LICENSE under licenses/ and every cmake/*.cmake and cmake/*.conf
\* file at its relative path; a pattern matching nothing is not an error.
C7_CopySetIgnoresOptions ==
    /\ packaged => pkg_files = LicenseCopy \cup MirroredScripts
    /\ ~packaged => pkg_files = {}
    /\ packaged => error = "none"

C7_Witness ==
    /\ packaged
    /\ ~self_options.add_build_outputs
    /\ << <<"LICENSE">> >> \in source
    /\ << <<"cmake">>, <<"sub">>, <<"extra", "cmake">> >> \in source
    /\ << <<"cmake">>, <<"clang-tidy", "conf">> >> \notin source
    /\ (package_folder \o << <<"cmake">>, <<"sub">>, <<"extra", "cmake">> >>) \in pkg_files
    /\ (package_folder \o << <<"licenses">>, <<"LICENSE">> >>) \in pkg_files
    /\ << <<"toolchain", "cmake">> >> \in source
    /\ << <<"cmake">>, <<"README", "md">> >> \in source
    /\ (package_folder \o << <<"toolchain", "cmake">> >>) \notin pkg_files
    /\ Cardinality(pkg_files) = 2

\* Length of the list when the package_info call in progress was entered.
CallBase == calls * (2 + TrueCount)

\* C8: every step keeps the previous list as a prefix of the new one; the
\* entries appended by one package_info call are pairwise distinct, and once
\* its appends are done the call has added 2 + (number of true options).
C8_StatePart ==
    (phase = "configured" /\ pc # "idle") =>
        /\ Len(conf_info) >= CallBase
        /\ \A i, j \in (CallBase + 1)..Len(conf_info) :
             i # j => conf_info[i] # conf_info[j]
        /\ pc \in {"L90", "L92", "L94"} =>
             Len(conf_info) - CallBase = 2 + TrueCount

C8_AppendOnly ==
    /\ [][IsPrefix(conf_info, conf_info')]_vars
    /\ []C8_StatePart
    /\ []((phase = "configured" /\ pc = "idle" /\ calls = 1) =>
            Len(conf_info) = 2 + TrueCount)

C8_Witness ==
    /\ pc = "L90" /\ calls = 0
    /\ self_options.add_build_outputs /\ self_options.optimize_debug_build
    /\ Len(conf_info) = 4

\* C9: once package_id has run the identity information is empty whatever
\* the option values and settings were, so all option combinations share one
\* package id although they publish different lists.
C9_IdentityCleared ==
    id_done => info = [settings |-> << >>, options |-> << >>]

C9_Witness ==
    /\ id_done /\ pc = "idle" /\ calls = 1
    /\ ~self_options.add_build_outputs /\ self_options.optimize_debug_build
    /\ Len(conf_info) = 3
    /\ info.options = << >>

\* C10: the clang-tidy.conf path is reported but never published; every
\* published entry is one of the four cmake fragment paths; the three
\* informational lines come after all appends of a call and emitting them
\* changes neither the published list nor the options.
C10_StatePart ==
    /\ \A i \in 1..Len(conf_info) :
         /\ conf_info[i] # Frag(<<"clang-tidy", "conf">>)
         /\ conf_info[i] \in {Frag(<<"build_outputs", "cmake">>),
                              Frag(<<"optimize_debug_build", "cmake">>),
                              Frag(<<"colors", "cmake">>), Frag(<<"build", "cmake">>)}
    /\ pc \in {"idle", "L71", "L76", "L81", "L85", "L90"} =>
         Len(output) = 3 * calls
    /\ \A i \in 1..Len(output) :
         (i % 3 = 1) => output[i] = <<"clang_tidy_config_path",
                                      Frag(<<"clang-tidy", "conf">>)>>

C10_DiagnosticsObserveOnly ==
    /\ []C10_StatePart
    /\ [][(Len(output') > Len(output)) =>
            /\ conf_info' = conf_info
            /\ self_options' = self_options
            /\ pc \in {"L90", "L92", "L94"}
            /\ Len(conf_info) = (calls + 1) * (2 + TrueCount)]_vars

C10_Witness ==
    /\ pc = "idle" /\ calls = 1
    /\ Len(output) = 3
    /\ output[1] = <<"clang_tidy_config_path", Frag(<<"clang-tidy", "conf">>)>>
    /\ output[2] = <<"add_build_outputs", FALSE>>
    /\ output[3] = <<"optimize_debug_build", TRUE>>
    /\ Len(conf_info) = 3

====
